---- MODULE Spec2Model ----
(***************************************************************************)
(* Token lifecycle of the Precog API client: setup_authentication,         *)
(* refresh_tokens_if_needed and PrecogClient._make_request operating on    *)
(* the token file, with the clock and the remote endpoints as environment. *)
(* Time is counted in whole seconds.                                       *)
(***************************************************************************)
EXTENDS Integers, Sequences, FiniteSets, TLC

VARIABLES
    now,          \* datetime.now(timezone.utc), in seconds
    file,         \* the token file: [status, rec]
    wallet_name,  \* config.get_wallet_name(); "" when not configured
    pc,           \* where the (single, blocking) caller is waiting
    op,           \* the operation running, or the last one that ran
    outcome,      \* what the last finished operation returned or raised
    caller,       \* who called the refresh_tokens_if_needed now in flight
    loaded,       \* `tokens` local of the refresh_tokens_if_needed in flight
    attempt,      \* requests issued by the running _make_request
    challenge,    \* `challenge` local of the running setup_authentication
    trace,        \* events of the running (or last) operation, in order
    rtick,        \* flips on every call of refresh_tokens_if_needed
    rret,         \* return of the latest refresh_tokens_if_needed call
    rposts,       \* POSTs to /auth/refresh made by that call
    tresp,        \* the latest answer of /auth/authenticate or /auth/refresh
    q_t,          \* expiry policy probe: the timestamp asked about
    q_res,        \* expiry policy probe: the verdict
    st_saved,     \* token store probe: the dict of the last json.dump
    st_loaded,    \* token store probe: what the last load_tokens returned
    st_ret,       \* token store probe: "returned" after a load_tokens
    args,         \* the arguments of the endpoint method called
    p_call,       \* paginate: get_all_pages and how `page` was passed
    kwargs_page,  \* paginate: kwargs['page']; 0 while the key is not there
    ppc,          \* paginate: where the wrapper is
    page_results, \* paginate: the `page_results` local
    plog,         \* paginate: calls, returns, raises and pauses, in order
    slept_ms,     \* paginate: time spent in time.sleep, in milliseconds
    p_ret,        \* paginate: how the wrapper ended
    p_list,       \* paginate: the list the wrapper returned
    p_output,     \* paginate: the page the wrapper returned as is
    p_error,      \* paginate: what the wrapper raised
    r_pc,         \* two processes: where each one is in refresh_tokens_if_needed
    r_loaded,     \* two processes: the `tokens` local of each
    r_posted,     \* two processes: the refresh_token each one posted last
    r_saved,      \* two processes: the record each one saved last
    r_last,       \* two processes: who saved last; 0 when nobody has
    r_raced       \* two processes: both had the same refresh_token posted at once

vars == <<now, file, wallet_name, pc, op, outcome, caller, loaded, attempt,
          challenge, trace, rtick, rret, rposts, tresp,
          q_t, q_res, st_saved, st_loaded, st_ret, args,
          p_call, kwargs_page, ppc, page_results, plog, slept_ms,
          p_ret, p_list, p_output, p_error,
          r_pc, r_loaded, r_posted, r_saved, r_last, r_raced>>

policyVars == <<q_t, q_res>>
storeVars == <<st_saved, st_loaded, st_ret>>
argVars == <<args>>
pageVars == <<p_call, kwargs_page, ppc, page_results, plog, slept_ms,
              p_ret, p_list, p_output, p_error>>
raceVars == <<r_pc, r_loaded, r_posted, r_saved, r_last, r_raced>>
probeVars == <<policyVars, storeVars, argVars, pageVars, raceVars>>
lifecycleVars == <<pc, op, outcome, caller, loaded, attempt, challenge, trace,
                   tresp, rtick, rret, rposts>>
refreshHist == <<rtick, rret, rposts>>

\* ------------------------------------------------------------------ bounds

MaxNow == 60            \* the clock stops advancing here
MaxPolicyNow == 2       \* clock values of the expiry policy probe
MaxPolicyT == 1012      \* largest timestamp of the expiry policy probe
MaxDecisionT == 8       \* clock values and offsets of the refresh decision probe
MaxCalls == 4           \* calls of the wrapped method in one paginated call
MaxPage == 3            \* largest page number passed in or reported

TickSteps == {5}

\* ------------------------------------------------------------------ values

Min(a, b) == IF a <= b THEN a ELSE b
Max(a, b) == IF a >= b THEN a ELSE b

\* A stored timestamp is a JSON value: an ISO-8601 string of an aware
\* datetime ("iso"), a missing/None/empty value ("none"), or a string that
\* datetime.fromisoformat rejects or parses to a naive datetime ("bad").
isoformat(n) == [k |-> "iso", v |-> n]
AbsentTs == [k |-> "none", v |-> 0]
BadTs == [k |-> "bad", v |-> 0]
Parses(s) == s.k = "iso"
fromisoformat(s) == s.v

NoToken == ""

EmptyRecord ==
    [access_token |-> NoToken, refresh_token |-> NoToken,
     access_expires_at |-> AbsentTs, expires_at |-> AbsentTs,
     wallet_name |-> "", api_url |-> "", extra |-> ""]

MissingFile == [status |-> "missing", rec |-> EmptyRecord]
CorruptFile == [status |-> "corrupt", rec |-> EmptyRecord]
OkFile(rec) == [status |-> "ok", rec |-> rec]

ApiUrl == "u1"

AccessTokens == {"a1", "a2"}
RefreshTokens == {"r1"}
ExpiresIns == {10, 40}
RefreshExpiresIns == {60}
Payloads == {"p1", "p2"}
ErrorStatuses == {"401", "500", "transport"}

\* Answers of /auth/authenticate and /auth/refresh.
OkResponses ==
    [kind : {"ok"}, access_token : AccessTokens, refresh_token : RefreshTokens,
     expires_in : ExpiresIns, has_rei : {TRUE}, refresh_expires_in : RefreshExpiresIns]
    \cup
    [kind : {"ok"}, access_token : AccessTokens, refresh_token : RefreshTokens,
     expires_in : ExpiresIns, has_rei : {FALSE}, refresh_expires_in : {0}]

FailResponse(kind) ==
    [kind |-> kind, access_token |-> NoToken, refresh_token |-> NoToken,
     expires_in |-> 0, has_rei |-> FALSE, refresh_expires_in |-> 0]

FailKinds == {"http_error", "transport_error", "missing_field"}
TokenResponses == OkResponses \cup {FailResponse(k) : k \in FailKinds}
NoResponse == FailResponse("none")

NoChallenge == [challenge_id |-> "", challenge_text |-> ""]
Challenges == {[challenge_id |-> "c1", challenge_text |-> "x1"]}

\* Token files a run may start from: none, an unparseable one, or a record
\* left by an earlier run, an earlier release or an edit.
InitRecords ==
    [access_token : {NoToken, "a0"}, refresh_token : {NoToken, "r0"},
     access_expires_at : {AbsentTs, BadTs, isoformat(40)},
     expires_at : {AbsentTs, BadTs, isoformat(60)},
     wallet_name : {"w0"}, api_url : {"u0"}, extra : {"x"}]

InitFiles == {MissingFile, CorruptFile} \cup {OkFile(r) : r \in InitRecords}

Event(e, v) == [e |-> e, v |-> v]

\* ------------------------------------------------------------------ auth.py

\* Variant of buffer_tenths: min and max exchanged.
buffer_tenths_swapped(time_until_expiry) ==
    Max(10 * 30, Min(10 * 5, time_until_expiry))

\* _is_token_expired, line 146: buffer_seconds = min(30, max(5,
\* time_until_expiry * 0.1)), here in tenths of a second.
buffer_tenths(time_until_expiry) ==
    Min(10 * 30, Max(10 * 5, time_until_expiry))

\* Variant of is_token_expired: no buffer.
is_token_expired_no_buffer(expires_at_str, n) ==
    IF expires_at_str.k = "none" THEN TRUE
    ELSE IF ~Parses(expires_at_str) THEN TRUE
    ELSE n >= fromisoformat(expires_at_str)

\* _is_token_expired
is_token_expired(expires_at_str, n) ==
    IF expires_at_str.k = "none" THEN TRUE
    ELSE IF ~Parses(expires_at_str) THEN TRUE
    ELSE LET expires_at == fromisoformat(expires_at_str)
             time_until_expiry == expires_at - n
         IN  10 * n >= 10 * expires_at - buffer_tenths(time_until_expiry)

\* Variant of load_tokens: only the keys the client reads are returned.
load_tokens_known_keys(f) ==
    IF f.status = "ok" THEN [f.rec EXCEPT !.extra = ""] ELSE EmptyRecord

\* load_tokens: the dict json.load returns; {} when the file does not exist
\* or when open or json.load raises.
load_tokens(f) == IF f.status = "ok" THEN f.rec ELSE EmptyRecord

save_tokens(tokens) == OkFile(tokens)

\* Variant of valid_tokens_found: the negation lost.
valid_tokens_found_inverted(f, n) ==
    /\ f.status = "ok"
    /\ is_token_expired(f.rec.expires_at, n)

\* setup_authentication, lines 50-63: valid tokens already exist.
valid_tokens_found(f, n) ==
    /\ f.status = "ok"
    /\ ~is_token_expired(f.rec.expires_at, n)

\* Variant of exchange_ok: missing keys read as empty values.
exchange_ok_lenient(r) == r.kind \in {"ok", "missing_field"}

\* setup_authentication, lines 91-106: the exchange went through when the
\* status is 2xx and the body has every key that is read.
exchange_ok(r) == r.kind = "ok"

\* Variant of token_data: no fallback to expires_in.
token_data_no_fallback(tokens, n, wallet, url) ==
    [access_token |-> tokens.access_token,
     refresh_token |-> tokens.refresh_token,
     access_expires_at |-> isoformat(n + tokens.expires_in),
     expires_at |-> isoformat(n + tokens.refresh_expires_in),
     wallet_name |-> wallet, api_url |-> url, extra |-> ""]

\* setup_authentication, lines 96-111: the record written after the exchange.
token_data(tokens, n, wallet, url) ==
    LET expires_in == tokens.expires_in
        refresh_expires_in ==
            IF tokens.has_rei THEN tokens.refresh_expires_in ELSE expires_in
    IN  [access_token |-> tokens.access_token,
         refresh_token |-> tokens.refresh_token,
         access_expires_at |-> isoformat(n + expires_in),
         expires_at |-> isoformat(n + refresh_expires_in),
         wallet_name |-> wallet, api_url |-> url, extra |-> ""]

\* Variant of refresh_access_token: missing keys read as empty values
\* instead of raising.
refresh_access_token_lenient(resp, n) ==
    IF resp.kind \notin {"ok", "missing_field"}
    THEN [some |-> FALSE, access_token |-> NoToken, refresh_token |-> NoToken,
          access_expires_at |-> AbsentTs, expires_at |-> AbsentTs]
    ELSE [some |-> TRUE, access_token |-> resp.access_token,
          refresh_token |-> resp.refresh_token,
          access_expires_at |-> isoformat(n + resp.expires_in),
          expires_at |-> isoformat(n + resp.expires_in)]

\* refresh_access_token: the dict built from the answer, or None.
refresh_access_token(resp, n) ==
    IF resp.kind # "ok"
    THEN [some |-> FALSE, access_token |-> NoToken, refresh_token |-> NoToken,
          access_expires_at |-> AbsentTs, expires_at |-> AbsentTs]
    ELSE LET expires_in == resp.expires_in
             refresh_expires_in ==
                 IF resp.has_rei THEN resp.refresh_expires_in ELSE expires_in
         IN  [some |-> TRUE, access_token |-> resp.access_token,
              refresh_token |-> resp.refresh_token,
              access_expires_at |-> isoformat(n + expires_in),
              expires_at |-> isoformat(n + refresh_expires_in)]

\* Variant of update: the record replaced by the refreshed fields.
update_replaces(tokens, refreshed) ==
    [EmptyRecord EXCEPT !.access_token = refreshed.access_token,
                        !.refresh_token = refreshed.refresh_token,
                        !.access_expires_at = refreshed.access_expires_at,
                        !.expires_at = refreshed.expires_at]

\* Variant of update: the refresh token of the answer is dropped.
update_keeps_refresh_token(tokens, refreshed) ==
    [tokens EXCEPT !.access_token = refreshed.access_token,
                   !.access_expires_at = refreshed.access_expires_at,
                   !.expires_at = refreshed.expires_at]

\* tokens.update(refreshed)
update(tokens, refreshed) ==
    [tokens EXCEPT !.access_token = refreshed.access_token,
                   !.refresh_token = refreshed.refresh_token,
                   !.access_expires_at = refreshed.access_expires_at,
                   !.expires_at = refreshed.expires_at]

\* Variant of refresh_decision: the access token's expiry is not looked at.
refresh_decision_eager(tokens, n) ==
    IF tokens.refresh_token = NoToken THEN "false"
    ELSE IF tokens.expires_at.k # "none" /\ ~Parses(tokens.expires_at) THEN "raise"
    ELSE IF tokens.expires_at.k # "none" /\ n >= fromisoformat(tokens.expires_at)
        THEN "false"
    ELSE "call"

\* Variant of refresh_decision: the access token side compared with <=.
refresh_decision_late(tokens, n) ==
    IF tokens.refresh_token = NoToken THEN "false"
    ELSE IF tokens.expires_at.k # "none" /\ ~Parses(tokens.expires_at) THEN "raise"
    ELSE IF tokens.expires_at.k # "none" /\ n >= fromisoformat(tokens.expires_at)
        THEN "false"
    ELSE IF tokens.access_expires_at.k = "none" THEN "false"
    ELSE IF ~Parses(tokens.access_expires_at) THEN "raise"
    ELSE IF n <= fromisoformat(tokens.access_expires_at) - 30 THEN "false"
    ELSE "call"

\* refresh_tokens_if_needed, lines 217-238: "false" (return False), "raise"
\* (fromisoformat or the comparison raises), or "call" (go on to line 240).
refresh_decision(tokens, n) ==
    IF tokens.refresh_token = NoToken THEN "false"
    ELSE IF tokens.expires_at.k # "none" /\ ~Parses(tokens.expires_at) THEN "raise"
    ELSE IF tokens.expires_at.k # "none" /\ n >= fromisoformat(tokens.expires_at)
        THEN "false"
    ELSE IF tokens.access_expires_at.k = "none" THEN "false"
    ELSE IF ~Parses(tokens.access_expires_at) THEN "raise"
    ELSE IF n < fromisoformat(tokens.access_expires_at) - 30 THEN "false"
    ELSE "call"

\* Variant of get_valid_access_token: an expired access token is withheld.
get_valid_access_token_unexpired(wallet, f) ==
    IF wallet = "" THEN NoToken
    ELSE IF is_token_expired(load_tokens(f).access_expires_at, now) THEN NoToken
    ELSE load_tokens(f).access_token

\* Variant of get_valid_access_token: the wallet check lost.
get_valid_access_token_any_wallet(wallet, f) == load_tokens(f).access_token

\* get_valid_access_token
get_valid_access_token(wallet, f) ==
    IF wallet = "" THEN NoToken ELSE load_tokens(f).access_token

\* ------------------------------------------------------------------ client.py

\* Variant of handle_error: every HTTP error status is taken for a 401.
handle_error_any_status(status) ==
    IF status = "transport" THEN "propagate" ELSE "refresh"

\* _make_request, lines 88-89 and 100-101: what the except clause does with
\* the failure of the first request.
handle_error(status) ==
    IF status = "transport" THEN "propagate"      \* not an HTTPError
    ELSE IF status = "401" THEN "refresh"
    ELSE "reraise"

\* Variant of reaches_handler: the retried request handled like the first.
reaches_handler_always(k) == TRUE

\* _make_request, lines 83-88: the failure of request k is raised inside the
\* try block, so the except clause sees it; the retry (lines 93-95) is
\* issued from within the clause and its failure leaves _make_request.
reaches_handler(k) == k = 1

\* Variants of after_unauthorized: the retry branch lost, and the retry
\* taken whatever the refresh returned.
after_unauthorized_gives_up(refreshed) == "auth_expired"
after_unauthorized_insists(refreshed) == "retry"

\* _make_request, lines 91-99: what follows the refresh after a 401.
after_unauthorized(refreshed) ==
    IF refreshed THEN "retry" ELSE "auth_expired"

\* The arguments of an endpoint method: which method, and the value of each
\* parameter (dates in days; the hotkey by its length).
Args(fn, miner_uid, hotkey_len, limit, start_date, end_date, page, page_size) ==
    [fn |-> fn, miner_uid |-> miner_uid, hotkey_len |-> hotkey_len,
     limit |-> limit, start_date |-> start_date, end_date |-> end_date,
     page |-> page, page_size |-> page_size]

NoArgs == Args("none", 0, 0, 0, 0, 0, 0, 0)

RecentMethods == {"recent", "recent_by_uid", "recent_by_hotkey"}
HistoricalMethods == {"historical", "historical_by_uid", "historical_by_hotkey"}
ByUid == {"recent_by_uid", "historical_by_uid"}
ByHotkey == {"recent_by_hotkey", "historical_by_hotkey"}

\* Variant of valid_limit: the upper end excluded.
valid_limit_open(limit) == ~(limit <= 0 \/ limit >= 10000)

\* lines 113, 132, 151
valid_limit(limit) == ~(limit <= 0 \/ limit > 10000)

\* lines 129, 223
valid_uid(miner_uid) == ~(miner_uid < 0 \/ miner_uid > 255)

\* lines 148, 271
valid_hotkey(hotkey_len) == ~(hotkey_len # 48)

\* lines 181, 229, 277
valid_dates(start_date, end_date) == ~(start_date >= end_date)

\* lines 184, 232, 280
valid_page(page) == ~(page < 1)

\* lines 187, 235, 283
valid_page_size(page_size) == ~(page_size < 100 \/ page_size > 10000)

\* The checks an endpoint method runs before it calls _make_request: "ok",
\* or the ValueError of the first check that fails.
validate(a) ==
    IF a.fn \in ByUid /\ ~valid_uid(a.miner_uid) THEN "ValueError"
    ELSE IF a.fn \in ByHotkey /\ ~valid_hotkey(a.hotkey_len) THEN "ValueError"
    ELSE IF a.fn \in RecentMethods
    THEN IF valid_limit(a.limit) THEN "ok" ELSE "ValueError"
    ELSE IF ~valid_dates(a.start_date, a.end_date) THEN "ValueError"
    ELSE IF ~valid_page(a.page) THEN "ValueError"
    ELSE IF ~valid_page_size(a.page_size) THEN "ValueError"
    ELSE "ok"

\* ------------------------------------------------------------------ paginate

PAGE_PAUSE_MS == 150

\* A call of a paginated method: the get_all_pages flag, and `page` left to
\* its default, passed by keyword, or passed positionally.
PageCall(get_all_pages, how, page) ==
    [get_all_pages |-> get_all_pages, how |-> how, page |-> page]

NoPageCall == PageCall(FALSE, "none", 0)

\* A page as the wrapped method returns it: the data (here the number of the
\* call that fetched it) and the pagination block.
Output(data, has_next, current_page) ==
    [data |-> data, has_next |-> has_next, current_page |-> current_page]

NoOutput == Output(0, FALSE, 0)

PageErrors == {"ValueError", "AuthExpired", "HTTPError", "transport"}

PageEvent(e, page, has_next) == [e |-> e, page |-> page, has_next |-> has_next]

\* endpoint_func(self, *args, **kwargs), lines 24 and 34, against the
\* signature (..., page=1, page_size=10000): the value `page` is bound to,
\* or 0 when the call raises TypeError because `page` arrives both
\* positionally and by keyword.
bind_page(call, kw) ==
    IF call.how = "positional"
    THEN IF kw # 0 THEN 0 ELSE call.page
    ELSE IF kw # 0 THEN kw ELSE 1

\* Variant of loops: the flag ignored.
loops_always(get_all_pages) == TRUE

\* wrapper, line 20
loops(get_all_pages) == get_all_pages

\* Variant of continues: the loop gives up after two pages.
continues_bounded(has_next, n) == has_next /\ n < 2

\* wrapper, line 23: `while has_next`, whatever the number n of pages
\* fetched so far.
continues(has_next, n) == has_next

\* Variant of sleeps_after: no pacing.
sleeps_after_never(has_next) == FALSE

\* wrapper, lines 29-31: time.sleep follows a page with has_next true.
sleeps_after(has_next) == has_next

\* The wrapper raises `err`; its locals are gone.
PageRaise(err, log) ==
    /\ ppc' = "done"
    /\ p_ret' = "raise"
    /\ p_error' = err
    /\ plog' = log
    /\ page_results' = <<>>

\* The wrapper calls the wrapped method with the kwargs it holds.
Invoke(kw, log, results) ==
    LET page == bind_page(p_call, kw)
    IN  IF page = 0
        THEN PageRaise("TypeError", Append(log, PageEvent("call", 0, FALSE)))
        ELSE /\ ppc' = "call"
             /\ plog' = Append(log, PageEvent("call", page, FALSE))
             /\ page_results' = results
             /\ UNCHANGED <<p_ret, p_error>>

\* wrapper up to its first call of the wrapped method (lines 19-24, 34).
PagesStart ==
    /\ ppc = "idle"
    /\ LET kw == IF p_call.how = "keyword" THEN p_call.page ELSE 0
       IN  /\ kwargs_page' = kw
           /\ Invoke(kw, <<>>, <<>>)
    /\ UNCHANGED <<now, file, wallet_name, lifecycleVars, policyVars, storeVars,
                   argVars, raceVars, p_call, slept_ms, p_list, p_output>>

\* The wrapped method returns a page (lines 24-34).
PageAnswer(has_next, current_page) ==
    /\ ppc = "call"
    /\ LET output == Output(Len(page_results) + 1, has_next, current_page)
           log == Append(plog, PageEvent("ret", current_page, has_next))
           results == Append(page_results, output)
       IN  IF ~loops(p_call.get_all_pages)
           THEN /\ ppc' = "done"
                /\ p_ret' = "output"
                /\ p_output' = output
                /\ plog' = log
                /\ UNCHANGED <<kwargs_page, page_results, p_list, p_error>>
           ELSE IF continues(has_next, Len(results))
           THEN /\ Len(results) < MaxCalls
                /\ kwargs_page' = current_page + 1
                /\ IF sleeps_after(has_next)
                   THEN /\ ppc' = "pause"
                        /\ plog' = log
                        /\ page_results' = results
                        /\ UNCHANGED <<p_ret, p_error>>
                   ELSE Invoke(current_page + 1, log, results)
                /\ UNCHANGED <<p_list, p_output>>
           ELSE /\ ppc' = "done"
                /\ p_ret' = "list"
                /\ p_list' = results
                /\ page_results' = results
                /\ plog' = log
                /\ UNCHANGED <<kwargs_page, p_output, p_error>>
    /\ UNCHANGED <<now, file, wallet_name, lifecycleVars, policyVars, storeVars,
                   argVars, raceVars, p_call, slept_ms>>

\* Variant of PageFails: the wrapper catches the exception and returns the
\* pages it has.
PageFails_returns_pages(err) ==
    /\ ppc = "call"
    /\ ppc' = "done"
    /\ plog' = Append(plog, PageEvent("raise", 0, FALSE))
    /\ IF loops(p_call.get_all_pages)
       THEN /\ p_ret' = "list"
            /\ p_list' = page_results
            /\ UNCHANGED <<p_error, page_results>>
       ELSE /\ p_ret' = "raise"
            /\ p_error' = err
            /\ page_results' = <<>>
            /\ UNCHANGED p_list
    /\ UNCHANGED <<now, file, wallet_name, lifecycleVars, policyVars, storeVars,
                   argVars, raceVars, p_call, kwargs_page, slept_ms, p_output>>

\* The wrapped method raises; nothing in the wrapper catches it.
PageFails(err) ==
    /\ ppc = "call"
    /\ PageRaise(err, Append(plog, PageEvent("raise", 0, FALSE)))
    /\ UNCHANGED <<now, file, wallet_name, lifecycleVars, policyVars, storeVars,
                   argVars, raceVars, p_call, kwargs_page, slept_ms, p_list, p_output>>

\* time.sleep(PAGE_PAUSE) returns and the loop calls the wrapped method
\* again (lines 31, 23-24).
PauseDone ==
    /\ ppc = "pause"
    /\ slept_ms' = slept_ms + PAGE_PAUSE_MS
    /\ Invoke(kwargs_page, Append(plog, PageEvent("pause", 0, FALSE)), page_results)
    /\ UNCHANGED <<now, file, wallet_name, lifecycleVars, policyVars, storeVars,
                   argVars, raceVars, p_call, kwargs_page, p_list, p_output>>

\* ------------------------------------------------------------------ two processes

\* The processes that share the token file.
Procs == {1, 2}

\* Variant of may_enter: a lock around refresh_tokens_if_needed.
may_enter_exclusive(pcs, p) == \A q \in Procs \ {p} : pcs[q] = "idle"

\* refresh_tokens_if_needed, lines 214-246, and load_tokens / save_tokens,
\* lines 154-176: nothing is locked, so a process goes in wherever the
\* others are.
may_enter(pcs, p) == TRUE

\* Process p calls refresh_tokens_if_needed: up to its return (no state
\* changed) or its POST to /auth/refresh (lines 217-240).
RaceStart(p) ==
    /\ r_pc[p] = "idle"
    /\ may_enter(r_pc, p)
    /\ LET tokens == load_tokens(file)
           d == refresh_decision(tokens, now)
       IN  IF d = "call"
           THEN /\ r_pc' = [r_pc EXCEPT ![p] = "refresh"]
                /\ r_loaded' = [r_loaded EXCEPT ![p] = tokens]
                /\ r_posted' = [r_posted EXCEPT ![p] = tokens.refresh_token]
                /\ r_raced' =
                       (r_raced \/ \E q \in Procs \ {p} :
                                      /\ r_pc[q] = "refresh"
                                      /\ r_posted[q] = tokens.refresh_token)
           ELSE UNCHANGED <<r_pc, r_loaded, r_posted, r_raced>>
    /\ UNCHANGED <<now, file, wallet_name, lifecycleVars, policyVars, storeVars,
                   argVars, pageVars, r_saved, r_last>>

\* The answer of /auth/refresh to process p, its merge and its save (lines
\* 182-201 and 241-246).
RaceResponse(p, r) ==
    /\ r_pc[p] = "refresh"
    /\ LET refreshed == refresh_access_token(r, now)
           tokens == update(r_loaded[p], refreshed)
       IN  IF refreshed.some
           THEN /\ file' = save_tokens(tokens)
                /\ r_saved' = [r_saved EXCEPT ![p] = tokens]
                /\ r_last' = p
           ELSE UNCHANGED <<file, r_saved, r_last>>
    /\ r_pc' = [r_pc EXCEPT ![p] = "idle"]
    /\ r_loaded' = [r_loaded EXCEPT ![p] = EmptyRecord]
    /\ UNCHANGED <<now, wallet_name, lifecycleVars, policyVars, storeVars,
                   argVars, pageVars, r_posted, r_raced>>

\* ------------------------------------------------------------------ steps

\* The running operation ends: it returns or raises `out`.
Finish(out, tr) ==
    /\ pc' = "idle"
    /\ outcome' = out
    /\ trace' = tr
    /\ caller' = "none"
    /\ loaded' = EmptyRecord
    /\ challenge' = NoChallenge

\* Variant of Issue: the access token read before the refresh is kept.
Issue_cached_token(f, tr, k) ==
    LET token == get_valid_access_token(wallet_name, file)
    IN  IF token = NoToken
        THEN Finish("AuthExpired", tr) /\ attempt' = k - 1
        ELSE /\ pc' = "request"
             /\ outcome' = "none"
             /\ trace' = Append(tr, Event("request", token))
             /\ caller' = "none"
             /\ loaded' = EmptyRecord
             /\ challenge' = NoChallenge
             /\ attempt' = k

\* _get_headers, then session.get: request number k leaves with the access
\* token the token file `f` holds now, or _get_headers raises.
Issue(f, tr, k) ==
    LET token == get_valid_access_token(wallet_name, f)
    IN  IF token = NoToken
        THEN Finish("AuthExpired", tr) /\ attempt' = k - 1
        ELSE /\ pc' = "request"
             /\ outcome' = "none"
             /\ trace' = Append(tr, Event("request", token))
             /\ caller' = "none"
             /\ loaded' = EmptyRecord
             /\ challenge' = NoChallenge
             /\ attempt' = k

\* refresh_tokens_if_needed is entered: what the call leaves in its history
\* up to its return or its POST to /auth/refresh.
EnterRefresh(d) ==
    /\ rtick' = ~rtick
    /\ rposts' = IF d = "call" THEN 1 ELSE 0
    /\ rret' = IF d = "call" THEN "pending" ELSE d
    /\ tresp' = NoResponse

\* The POST to /auth/refresh leaves; the caller blocks on the answer.
AwaitRefresh(who, tokens, tr, k) ==
    /\ pc' = "refresh"
    /\ outcome' = "none"
    /\ caller' = who
    /\ loaded' = tokens
    /\ challenge' = NoChallenge
    /\ trace' = Append(tr, Event("refresh_post", tokens.refresh_token))
    /\ attempt' = k

Tick(d) ==
    /\ now + d <= MaxNow
    /\ now' = now + d
    /\ UNCHANGED <<file, wallet_name, pc, op, outcome, caller, loaded, attempt,
                   challenge, trace, tresp, refreshHist, probeVars>>

\* setup_authentication up to the GET of /auth/challenge (lines 31-71).
SetupStart ==
    /\ pc = "idle"
    /\ op' = "setup"
    /\ attempt' = 0
    /\ rret' = "none" /\ rposts' = 0 /\ tresp' = NoResponse
    /\ IF wallet_name = ""
       THEN Finish("false", <<>>)
       ELSE IF valid_tokens_found(file, now)
       THEN Finish("true", <<Event("valid_tokens_found", "")>>)
       ELSE /\ pc' = "challenge"
            /\ outcome' = "none"
            /\ trace' = <<Event("challenge_get", "")>>
            /\ caller' = "none"
            /\ loaded' = EmptyRecord
            /\ challenge' = NoChallenge
    /\ UNCHANGED <<now, file, wallet_name, rtick, probeVars>>

\* Variant of ChallengeResponse: a failed challenge request is sent again.
ChallengeResponse_retries(kind, c) ==
    /\ pc = "challenge"
    /\ LET tr == Append(trace, Event("challenge_resp", kind))
       IN  IF kind = "ok"
           THEN /\ pc' = "sign"
                /\ challenge' = c
                /\ trace' = tr
                /\ UNCHANGED <<outcome, caller, loaded>>
           ELSE /\ trace' = Append(tr, Event("challenge_get", ""))
                /\ UNCHANGED <<pc, outcome, caller, loaded, challenge>>
    /\ UNCHANGED <<now, file, wallet_name, op, attempt, tresp,
                   refreshHist, probeVars>>

\* The answer to GET /auth/challenge (lines 71-73); a body lacking a key
\* raises KeyError further down, inside the same try.
ChallengeResponse(kind, c) ==
    /\ pc = "challenge"
    /\ LET tr == Append(trace, Event("challenge_resp", kind))
       IN  IF kind = "ok"
           THEN /\ pc' = "sign"
                /\ challenge' = c
                /\ trace' = tr
                /\ UNCHANGED <<outcome, caller, loaded>>
           ELSE Finish("false", tr)
    /\ UNCHANGED <<now, file, wallet_name, op, attempt, tresp,
                   refreshHist, probeVars>>

\* The wallet signs the challenge text (lines 77-79), then the POST to
\* /auth/authenticate leaves (lines 85-91).
SignDone(ok) ==
    /\ pc = "sign"
    /\ IF ok
       THEN /\ pc' = "exchange"
            /\ trace' = trace \o <<Event("sign", "ok"),
                                   Event("exchange_post", challenge.challenge_id)>>
            /\ UNCHANGED <<outcome, caller, loaded, challenge>>
       ELSE Finish("false", Append(trace, Event("sign", "fail")))
    /\ UNCHANGED <<now, file, wallet_name, op, attempt, tresp,
                   refreshHist, probeVars>>

\* Variant of ExchangeResponse: the new fields merged into the old record.
ExchangeResponse_merges(r) ==
    /\ pc = "exchange"
    /\ tresp' = r
    /\ LET tr == Append(trace, Event("exchange_resp", r.kind))
           new == token_data(r, now, wallet_name, ApiUrl)
       IN  IF exchange_ok(r)
           THEN /\ file' = OkFile([new EXCEPT !.extra = load_tokens(file).extra])
                /\ Finish("true", Append(tr, Event("save", r.access_token)))
           ELSE /\ file' = file
                /\ Finish("false", tr)
    /\ UNCHANGED <<now, wallet_name, op, attempt, refreshHist, probeVars>>

\* The answer of /auth/authenticate and the write of the token file
\* (lines 92-130).
ExchangeResponse(r) ==
    /\ pc = "exchange"
    /\ tresp' = r
    /\ LET tr == Append(trace, Event("exchange_resp", r.kind))
       IN  IF exchange_ok(r)
           THEN /\ file' = OkFile(token_data(r, now, wallet_name, ApiUrl))
                /\ Finish("true", Append(tr, Event("save", r.access_token)))
           ELSE /\ file' = file
                /\ Finish("false", tr)
    /\ UNCHANGED <<now, wallet_name, op, attempt, refreshHist, probeVars>>

\* refresh_tokens_if_needed called on its own, up to its return or its POST.
RefreshStart ==
    /\ pc = "idle"
    /\ op' = "refresh"
    /\ LET tokens == load_tokens(file)
           d == refresh_decision(tokens, now)
       IN  /\ EnterRefresh(d)
           /\ IF d = "call"
              THEN AwaitRefresh("direct", tokens, <<>>, 0)
              ELSE /\ Finish(IF d = "raise" THEN "ParseError" ELSE "false",
                             <<Event("refresh_ret", d)>>)
                   /\ attempt' = 0
    /\ UNCHANGED <<now, file, wallet_name, probeVars>>

\* Variant of ExecuteStart: no refresh_tokens_if_needed call at the top.
ExecuteStart_no_refresh ==
    /\ pc = "idle"
    /\ op' = "execute"
    /\ Issue(file, <<>>, 1)
    /\ UNCHANGED <<now, file, wallet_name, tresp, refreshHist, probeVars>>

\* _make_request up to the first blocking call (lines 78-85).
ExecuteStart ==
    /\ pc = "idle"
    /\ op' = "execute"
    /\ LET tokens == load_tokens(file)
           d == refresh_decision(tokens, now)
           tr == <<Event("refresh_ret", d)>>
       IN  /\ EnterRefresh(d)
           /\ IF d = "call" THEN AwaitRefresh("proactive", tokens, <<>>, 0)
              ELSE IF d = "raise" THEN Finish("ParseError", tr) /\ attempt' = 0
              ELSE Issue(file, tr, 1)
    /\ UNCHANGED <<now, file, wallet_name, probeVars>>

\* The answer of /auth/refresh (lines 182-201), the merge and save (lines
\* 241-246), and what the caller of refresh_tokens_if_needed does next.
RefreshResponse(r) ==
    /\ pc = "refresh"
    /\ LET refreshed == refresh_access_token(r, now)
           ret == refreshed.some
           f == IF ret THEN save_tokens(update(loaded, refreshed)) ELSE file
           tr == trace \o <<Event("refresh_resp", r.kind),
                            Event("refresh_ret", IF ret THEN "true" ELSE "false")>>
       IN  /\ file' = f
           /\ tresp' = r
           /\ rret' = IF ret THEN "true" ELSE "false"
           /\ IF caller = "direct"
              THEN Finish(IF ret THEN "true" ELSE "false", tr) /\ attempt' = attempt
              ELSE IF caller = "proactive" THEN Issue(f, tr, 1)
              ELSE IF after_unauthorized(ret) = "retry" THEN Issue(f, tr, 2)
              ELSE Finish("AuthExpired", tr) /\ attempt' = attempt
    /\ UNCHANGED <<now, wallet_name, op, rtick, rposts, probeVars>>

\* The answer to a request (lines 85-101).
RequestResponse(s) ==
    /\ pc = "request"
    /\ LET tr == Append(trace, Event("response", s))
           tokens == load_tokens(file)
           d == refresh_decision(tokens, now)
           refreshes == /\ s \in ErrorStatuses
                        /\ reaches_handler(attempt)
                        /\ handle_error(s) = "refresh"
       IN  /\ IF refreshes THEN EnterRefresh(d) ELSE UNCHANGED <<tresp, refreshHist>>
           /\ IF ~refreshes
              THEN Finish(s, tr) /\ attempt' = attempt
              ELSE IF d = "call" THEN AwaitRefresh("on401", tokens, tr, attempt)
              ELSE IF d = "raise"
              THEN /\ Finish("ParseError", Append(tr, Event("refresh_ret", d)))
                   /\ attempt' = attempt
              ELSE IF after_unauthorized(FALSE) = "retry"
              THEN Issue(file, Append(tr, Event("refresh_ret", d)), 2)
              ELSE /\ Finish("AuthExpired", Append(tr, Event("refresh_ret", d)))
                   /\ attempt' = attempt
    /\ UNCHANGED <<now, file, wallet_name, op, probeVars>>

\* An endpoint method is called with `args`: its checks, then _make_request
\* up to the first blocking call.
CallEndpoint ==
    /\ pc = "idle"
    /\ IF validate(args) = "ok"
       THEN ExecuteStart
       ELSE /\ op' = "rejected"
            /\ Finish("ValueError", <<>>)
            /\ attempt' = 0
            /\ UNCHANGED <<now, file, wallet_name, tresp, refreshHist, probeVars>>

\* ------------------------------------------------------------------ system

\* No endpoint method has been called.
ArgsAtRest == args = NoArgs

\* No second process is there.
RaceAtRest ==
    /\ r_pc = [p \in Procs |-> "idle"]
    /\ r_loaded = [p \in Procs |-> EmptyRecord]
    /\ r_posted = [p \in Procs |-> NoToken]
    /\ r_saved = [p \in Procs |-> EmptyRecord]
    /\ r_last = 0
    /\ r_raced = FALSE

\* No paginated method has been called.
PagesAtRest ==
    /\ p_call = NoPageCall
    /\ kwargs_page = 0
    /\ ppc = "idle"
    /\ page_results = <<>>
    /\ plog = <<>>
    /\ slept_ms = 0
    /\ p_ret = "none"
    /\ p_list = <<>>
    /\ p_output = NoOutput
    /\ p_error = "none"

\* No load_tokens or save_tokens call of the token store probe has run.
StoreAtRest ==
    /\ st_saved = EmptyRecord
    /\ st_loaded = EmptyRecord
    /\ st_ret = "none"


Init ==
    /\ now = 0
    /\ file \in InitFiles
    /\ wallet_name \in {"", "w1"}
    /\ pc = "idle"
    /\ op = "none"
    /\ outcome = "none"
    /\ caller = "none"
    /\ loaded = EmptyRecord
    /\ attempt = 0
    /\ challenge = NoChallenge
    /\ trace = <<>>
    /\ rtick = FALSE
    /\ rret = "none"
    /\ rposts = 0
    /\ tresp = NoResponse
    /\ q_t = AbsentTs
    /\ q_res = "none"
    /\ StoreAtRest
    /\ ArgsAtRest
    /\ PagesAtRest
    /\ RaceAtRest

Next ==
    \/ \E d \in TickSteps : Tick(d)
    \/ SetupStart
    \/ \E k \in {"ok"} \cup FailKinds : \E c \in Challenges : ChallengeResponse(k, c)
    \/ \E ok \in BOOLEAN : SignDone(ok)
    \/ \E r \in TokenResponses : ExchangeResponse(r)
    \/ RefreshStart
    \/ ExecuteStart
    \/ \E r \in TokenResponses : RefreshResponse(r)
    \/ \E s \in Payloads \cup ErrorStatuses : RequestResponse(s)

Spec == Init /\ [][Next]_vars

\* ------------------------------------------------------------------ expiry policy probe

PolicyInputs ==
    {AbsentTs, BadTs} \cup {isoformat(t) : t \in 0..MaxPolicyT}

InitPolicy ==
    /\ now \in 0..MaxPolicyNow
    /\ file = MissingFile
    /\ wallet_name = "w1"
    /\ pc = "idle"
    /\ op = "none"
    /\ outcome = "none"
    /\ caller = "none"
    /\ loaded = EmptyRecord
    /\ attempt = 0
    /\ challenge = NoChallenge
    /\ trace = <<>>
    /\ rtick = FALSE
    /\ rret = "none"
    /\ rposts = 0
    /\ tresp = NoResponse
    /\ q_t \in PolicyInputs
    /\ q_res = "none"
    /\ StoreAtRest
    /\ ArgsAtRest
    /\ PagesAtRest
    /\ RaceAtRest

\* One evaluation of _is_token_expired(q_t) at the clock value `now`.
Evaluate ==
    /\ q_res = "none"
    /\ q_res' = IF is_token_expired(q_t, now) THEN "expired" ELSE "valid"
    /\ UNCHANGED <<now, file, wallet_name, pc, op, outcome, caller, loaded,
                   attempt, challenge, trace, tresp, refreshHist, q_t,
                   storeVars, argVars, raceVars, pageVars>>

NextPolicy == Evaluate

SpecPolicy == InitPolicy /\ [][NextPolicy]_vars

\* ------------------------------------------------------------------ token store probe

InitStore ==
    /\ now = 0
    /\ file \in InitFiles
    /\ wallet_name = "w1"
    /\ pc = "idle"
    /\ op = "none"
    /\ outcome = "none"
    /\ caller = "none"
    /\ loaded = EmptyRecord
    /\ attempt = 0
    /\ challenge = NoChallenge
    /\ trace = <<>>
    /\ rtick = FALSE
    /\ rret = "none"
    /\ rposts = 0
    /\ tresp = NoResponse
    /\ q_t = AbsentTs
    /\ q_res = "none"
    /\ st_saved = file.rec
    /\ st_loaded = EmptyRecord
    /\ st_ret = "none"
    /\ ArgsAtRest
    /\ PagesAtRest
    /\ RaceAtRest

\* save_tokens(tokens)
StoreSave(tokens) ==
    /\ file' = save_tokens(tokens)
    /\ st_saved' = tokens
    /\ st_loaded' = EmptyRecord
    /\ st_ret' = "none"
    /\ UNCHANGED <<now, wallet_name, lifecycleVars, policyVars, argVars, raceVars,
                   pageVars>>

\* The token file is removed, or its content stops being JSON (an edit, a
\* write cut short).
StoreDamage(status) ==
    /\ file.status # status
    /\ file' = [status |-> status, rec |-> EmptyRecord]
    /\ st_loaded' = EmptyRecord
    /\ st_ret' = "none"
    /\ UNCHANGED <<now, wallet_name, lifecycleVars, policyVars, argVars, raceVars,
                   pageVars, st_saved>>

\* load_tokens()
StoreLoad ==
    /\ st_ret = "none"
    /\ st_loaded' = load_tokens(file)
    /\ st_ret' = "returned"
    /\ UNCHANGED <<now, file, wallet_name, lifecycleVars, policyVars, argVars, raceVars,
                   pageVars, st_saved>>

NextStore ==
    \/ \E tokens \in InitRecords : StoreSave(tokens)
    \/ \E status \in {"missing", "corrupt"} : StoreDamage(status)
    \/ StoreLoad

SpecStore == InitStore /\ [][NextStore]_vars

\* ------------------------------------------------------------------ endpoint calls

Limits == {-1, 0, 1, 100, 10000, 10001}
Uids == {-1, 0, 255, 256}
HotkeyLens == {0, 47, 48, 49}
Dates == {1, 2}
Pages == {-1, 0, 1, 2}
PageSizes == {0, 99, 100, 10000, 10001}

\* The calls tried: every method, each of its parameters on, inside and
\* outside the ends of its range; parameters a method does not have are 0.
ArgSets ==
    {Args(fn, uid, len, limit, 0, 0, 0, 0) :
        fn \in {"recent"}, uid \in {0}, len \in {0}, limit \in Limits}
    \cup {Args(fn, uid, len, limit, 0, 0, 0, 0) :
        fn \in {"recent_by_uid"}, uid \in Uids, len \in {0}, limit \in Limits}
    \cup {Args(fn, uid, len, limit, 0, 0, 0, 0) :
        fn \in {"recent_by_hotkey"}, uid \in {0}, len \in HotkeyLens,
        limit \in Limits}
    \cup {Args(fn, uid, len, 0, s, e, page, size) :
        fn \in {"historical"}, uid \in {0}, len \in {0},
        s \in Dates, e \in Dates, page \in Pages, size \in PageSizes}
    \cup {Args(fn, uid, len, 0, s, e, page, size) :
        fn \in {"historical_by_uid"}, uid \in Uids, len \in {0},
        s \in Dates, e \in Dates, page \in Pages, size \in PageSizes}
    \cup {Args(fn, uid, len, 0, s, e, page, size) :
        fn \in {"historical_by_hotkey"}, uid \in {0}, len \in HotkeyLens,
        s \in Dates, e \in Dates, page \in Pages, size \in PageSizes}

\* A token file with a usable record, and none.
EndpointFiles ==
    {MissingFile,
     OkFile([access_token |-> "a0", refresh_token |-> "r0",
             access_expires_at |-> isoformat(40), expires_at |-> isoformat(60),
             wallet_name |-> "w0", api_url |-> "u0", extra |-> "x"])}

InitEndpoint ==
    /\ now \in {0, 10}
    /\ file \in EndpointFiles
    /\ wallet_name = "w1"
    /\ pc = "idle"
    /\ op = "none"
    /\ outcome = "none"
    /\ caller = "none"
    /\ loaded = EmptyRecord
    /\ attempt = 0
    /\ challenge = NoChallenge
    /\ trace = <<>>
    /\ rtick = FALSE
    /\ rret = "none"
    /\ rposts = 0
    /\ tresp = NoResponse
    /\ q_t = AbsentTs
    /\ q_res = "none"
    /\ StoreAtRest
    /\ args \in ArgSets
    /\ PagesAtRest
    /\ RaceAtRest

NextEndpoint ==
    \/ CallEndpoint
    \/ \E r \in TokenResponses : RefreshResponse(r)
    \/ \E s \in Payloads \cup ErrorStatuses : RequestResponse(s)

SpecEndpoint == InitEndpoint /\ [][NextEndpoint]_vars

\* ------------------------------------------------------------------ paginated calls

PageCalls ==
    {PageCall(g, "default", 1) : g \in BOOLEAN}
    \cup {PageCall(g, how, page) :
             g \in BOOLEAN, how \in {"keyword", "positional"}, page \in 1..MaxPage}

InitPages ==
    /\ now = 0
    /\ file = MissingFile
    /\ wallet_name = "w1"
    /\ pc = "idle"
    /\ op = "none"
    /\ outcome = "none"
    /\ caller = "none"
    /\ loaded = EmptyRecord
    /\ attempt = 0
    /\ challenge = NoChallenge
    /\ trace = <<>>
    /\ rtick = FALSE
    /\ rret = "none"
    /\ rposts = 0
    /\ tresp = NoResponse
    /\ q_t = AbsentTs
    /\ q_res = "none"
    /\ StoreAtRest
    /\ ArgsAtRest
    /\ RaceAtRest
    /\ p_call \in PageCalls
    /\ kwargs_page = 0
    /\ ppc = "idle"
    /\ page_results = <<>>
    /\ plog = <<>>
    /\ slept_ms = 0
    /\ p_ret = "none"
    /\ p_list = <<>>
    /\ p_output = NoOutput
    /\ p_error = "none"

NextPages ==
    \/ PagesStart
    \/ \E has_next \in BOOLEAN : \E current_page \in 1..MaxPage :
           PageAnswer(has_next, current_page)
    \/ \E err \in PageErrors : PageFails(err)
    \/ PauseDone

SpecPages == InitPages /\ [][NextPages]_vars

\* ------------------------------------------------------------------ two processes on one token file

\* A record whose access token is due for a refresh at the start.
RaceRecord ==
    [access_token |-> "a0", refresh_token |-> "r0",
     access_expires_at |-> isoformat(20), expires_at |-> isoformat(60),
     wallet_name |-> "w0", api_url |-> "u0", extra |-> "x"]

InitRace ==
    /\ now = 0
    /\ file = OkFile(RaceRecord)
    /\ wallet_name = "w1"
    /\ pc = "idle"
    /\ op = "none"
    /\ outcome = "none"
    /\ caller = "none"
    /\ loaded = EmptyRecord
    /\ attempt = 0
    /\ challenge = NoChallenge
    /\ trace = <<>>
    /\ rtick = FALSE
    /\ rret = "none"
    /\ rposts = 0
    /\ tresp = NoResponse
    /\ q_t = AbsentTs
    /\ q_res = "none"
    /\ StoreAtRest
    /\ ArgsAtRest
    /\ PagesAtRest
    /\ r_pc = [p \in Procs |-> "idle"]
    /\ r_loaded = [p \in Procs |-> EmptyRecord]
    /\ r_posted = [p \in Procs |-> NoToken]
    /\ r_saved = [p \in Procs |-> EmptyRecord]
    /\ r_last = 0
    /\ r_raced = FALSE

NextRace ==
    \/ \E p \in Procs : RaceStart(p)
    \/ \E p \in Procs : \E r \in TokenResponses : RaceResponse(p, r)

SpecRace == InitRace /\ [][NextRace]_vars

\* ------------------------------------------------------------------ refresh decision probe

\* Records with a refresh_token and both expiry timestamps, the timestamps
\* placed around the clock values of the probe.
DecisionRecords ==
    [access_token : {"a0"}, refresh_token : {"r0"},
     access_expires_at : {isoformat(30 + t) : t \in 0..MaxDecisionT},
     expires_at : {isoformat(t) : t \in 0..MaxDecisionT},
     wallet_name : {"w0"}, api_url : {"u0"}, extra : {"x"}]

InitDecision ==
    /\ now \in 0..MaxDecisionT
    /\ file \in {OkFile(r) : r \in DecisionRecords}
    /\ wallet_name = "w1"
    /\ pc = "idle"
    /\ op = "none"
    /\ outcome = "none"
    /\ caller = "none"
    /\ loaded = EmptyRecord
    /\ attempt = 0
    /\ challenge = NoChallenge
    /\ trace = <<>>
    /\ rtick = FALSE
    /\ rret = "none"
    /\ rposts = 0
    /\ tresp = NoResponse
    /\ q_t = AbsentTs
    /\ q_res = "none"
    /\ StoreAtRest
    /\ ArgsAtRest
    /\ PagesAtRest
    /\ RaceAtRest

\* refresh_tokens_if_needed called at a fixed clock value, and the answers
\* of /auth/refresh.
NextDecision ==
    \/ RefreshStart
    \/ \E r \in TokenResponses : RefreshResponse(r)

SpecDecision == InitDecision /\ [][NextDecision]_vars

\* ------------------------------------------------------------------ reading the trace

Count(tr, e) == Cardinality({i \in 1..Len(tr) : tr[i].e = e})

Last(tr) == tr[Len(tr)]

\* The first answer of the trace is a 401 and the refresh_tokens_if_needed
\* call that follows it has returned v.
RefreshAfter401(tr, v) ==
    \E i \in 1..Len(tr) :
        /\ tr[i] = Event("response", "401")
        /\ \A h \in 1..(i - 1) : tr[h].e # "response"
        /\ \E j \in (i + 1)..Len(tr) :
               /\ tr[j] = Event("refresh_ret", v)
               /\ \A h \in (i + 1)..(j - 1) : tr[h].e # "refresh_ret"

\* ------------------------------------------------------------------ C1

\* C1: when the first request of a _make_request is answered 401 and the
\* refresh_tokens_if_needed call that follows returns True, exactly one more
\* request is issued and _make_request ends with the result of that request.
C1_RetryAfterRefresh ==
    (op = "execute" /\ RefreshAfter401(trace, "true")) =>
        /\ pc \in {"request", "idle"}
        /\ attempt = 2
        /\ Count(trace, "request") = 2
        /\ pc = "request" => Last(trace).e = "request"
        /\ pc = "idle" =>
               /\ Last(trace).e = "response"
               /\ trace[Len(trace) - 1].e = "request"
               /\ outcome = Last(trace).v

C1_Witness ==
    /\ op = "execute"
    /\ pc = "idle"
    /\ RefreshAfter401(trace, "true")
    /\ Count(trace, "request") = 2
    /\ outcome \in Payloads

\* ------------------------------------------------------------------ C2

\* C2: when the first request of a _make_request is answered 401 and the
\* refresh_tokens_if_needed call that follows returns False, _make_request
\* raises the re-authenticate error and issues no further request.
C2_NoRetryWithoutRefresh ==
    (op = "execute" /\ RefreshAfter401(trace, "false")) =>
        /\ pc = "idle"
        /\ outcome = "AuthExpired"
        /\ attempt = 1
        /\ Count(trace, "request") = 1
        /\ Last(trace) = Event("refresh_ret", "false")

C2_Witness ==
    /\ op = "execute"
    /\ pc = "idle"
    /\ RefreshAfter401(trace, "false")
    /\ rposts = 1
    /\ outcome = "AuthExpired"

C2_WitnessNotDue ==
    /\ op = "execute"
    /\ pc = "idle"
    /\ RefreshAfter401(trace, "false")
    /\ rposts = 0
    /\ outcome = "AuthExpired"

\* ------------------------------------------------------------------ C3

\* A step that enters refresh_tokens_if_needed.
EntersRefresh == rtick' # rtick

\* The record is in one of the four no-op cases at time n: no refresh_token;
\* refresh-token expiry present and passed; no access_expires_at; access
\* token more than 30 seconds from its expiry.
NoOpCase(tokens, n) ==
    \/ tokens.refresh_token = NoToken
    \/ Parses(tokens.expires_at) /\ n >= fromisoformat(tokens.expires_at)
    \/ tokens.access_expires_at.k = "none"
    \/ Parses(tokens.access_expires_at)
         /\ n < fromisoformat(tokens.access_expires_at) - 30

\* C3: in each no-op case refresh_tokens_if_needed returns False, makes no
\* POST to /auth/refresh and leaves the token file as it was.
C3_NoOpCases ==
    [][(EntersRefresh /\ NoOpCase(load_tokens(file), now)) =>
           /\ rret' = "false"
           /\ rposts' = 0
           /\ pc' # "refresh"
           /\ file' = file]_vars

\* ------------------------------------------------------------------ C4

\* The record calls for a refresh at time n: refresh_token present, refresh
\* token not expired, access token within 30 seconds of its expiry or past it.
DueCase(tokens, n) ==
    /\ tokens.refresh_token # NoToken
    /\ \/ tokens.expires_at.k = "none"
       \/ Parses(tokens.expires_at) /\ n < fromisoformat(tokens.expires_at)
    /\ Parses(tokens.access_expires_at)
    /\ n >= fromisoformat(tokens.access_expires_at) - 30

\* A step in which /auth/refresh answers kind k to the call in flight.
RefreshAnswered(kinds) == pc = "refresh" /\ tresp'.kind \in kinds

\* C4: in the due case the stored refresh_token is posted to /auth/refresh,
\* and when the endpoint answers successfully refresh_tokens_if_needed
\* returns True and the token file holds the answer's access_token and
\* refresh_token and the two expiry timestamps computed from the answer.
C4_RefreshSuccess ==
    [][/\ (EntersRefresh /\ DueCase(load_tokens(file), now)) =>
              /\ pc' = "refresh"
              /\ rposts' = 1
              /\ Last(trace') = Event("refresh_post", load_tokens(file).refresh_token)
       /\ RefreshAnswered({"ok"}) =>
              /\ rret' = "true"
              /\ file'.status = "ok"
              /\ file'.rec.access_token = tresp'.access_token
              /\ file'.rec.refresh_token = tresp'.refresh_token
              /\ file'.rec.access_expires_at = isoformat(now + tresp'.expires_in)
              /\ file'.rec.expires_at =
                     isoformat(now + (IF tresp'.has_rei
                                      THEN tresp'.refresh_expires_in
                                      ELSE tresp'.expires_in))]_vars

C4_Witness ==
    /\ op = "refresh"
    /\ pc = "idle"
    /\ rret = "true"
    /\ outcome = "true"
    /\ tresp.kind = "ok"
    /\ file.rec.wallet_name = "w0"
    /\ file.rec.access_token = tresp.access_token
    /\ file.rec.refresh_token = tresp.refresh_token

\* ------------------------------------------------------------------ C5

\* C5: when the call to /auth/refresh fails (transport error, non-2xx
\* status, answer lacking a required field) refresh_tokens_if_needed returns
\* False, and no step of the call changes the token file.
C5_RefreshFailure ==
    [][/\ RefreshAnswered(FailKinds) => (rret' = "false" /\ file' = file)
       /\ pc' = "refresh" => file' = file]_vars

C5_Witness ==
    /\ op = "refresh"
    /\ pc = "idle"
    /\ rposts = 1
    /\ rret = "false"
    /\ outcome = "false"
    /\ tresp.kind = "missing_field"

\* ------------------------------------------------------------------ C6

\* A step that enters setup_authentication.
EntersSetup == pc = "idle" /\ op' = "setup" /\ now' = now

NetworkEvents == {"challenge_get", "exchange_post", "refresh_post", "request"}

NoNetwork(tr) == \A i \in 1..Len(tr) : tr[i].e \notin NetworkEvents

\* C6: setup_authentication entered after a successful setup_authentication
\* whose freshly written tokens are not expired reports success, makes no
\* network call and leaves the token file unchanged.
C6_SetupIdempotent ==
    [][(/\ EntersSetup
        /\ op = "setup" /\ outcome = "true"
        /\ Len(trace) > 0 /\ Last(trace).e = "save"
        /\ ~is_token_expired(file.rec.access_expires_at, now)
        /\ ~is_token_expired(file.rec.expires_at, now)) =>
           /\ pc' = "idle"
           /\ outcome' = "true"
           /\ file' = file
           /\ NoNetwork(trace')]_vars

C6_Witness ==
    /\ op = "setup"
    /\ pc = "idle"
    /\ outcome = "true"
    /\ trace = <<Event("valid_tokens_found", "")>>
    /\ file.status = "ok"
    /\ file.rec.wallet_name = "w1"
    /\ file.rec.extra = ""
    /\ ~is_token_expired(file.rec.access_expires_at, now)

\* ------------------------------------------------------------------ C7

\* C7: setup_authentication skips the challenge flow and reports success
\* exactly when the loaded record has an access_token and the expiry policy
\* judges the access token not expired; otherwise it requests a challenge.
C7_CheckExisting ==
    [][(EntersSetup /\ wallet_name # "") =>
           LET rec == load_tokens(file)
               usable == /\ rec.access_token # NoToken
                         /\ ~is_token_expired(rec.access_expires_at, now)
           IN  /\ usable => (pc' = "idle" /\ outcome' = "true")
               /\ ~usable => pc' = "challenge"]_vars

\* The same statement over the records setup_authentication itself wrote.
C7_OnOwnRecords ==
    [][(EntersSetup /\ wallet_name # "" /\ file.rec.wallet_name = "w1") =>
           LET rec == load_tokens(file)
               usable == /\ rec.access_token # NoToken
                         /\ ~is_token_expired(rec.access_expires_at, now)
           IN  /\ usable => (pc' = "idle" /\ outcome' = "true")
               /\ ~usable => pc' = "challenge"]_vars

\* ------------------------------------------------------------------ C8

\* A step of setup_authentication in which the challenge request, the
\* signing or the token exchange fails.
SetupStepFails ==
    /\ pc \in {"challenge", "sign", "exchange"}
    /\ Len(trace') > Len(trace)
    /\ LET e == trace'[Len(trace) + 1]
       IN  \/ e.e \in {"challenge_resp", "exchange_resp"} /\ e.v \in FailKinds
           \/ e = Event("sign", "fail")

\* C8: a failing challenge request, signing or exchange makes
\* setup_authentication return False, and no step of a setup_authentication
\* that is still running or has failed changes the token file.
C8_SetupFailure ==
    [][/\ SetupStepFails => (pc' = "idle" /\ outcome' = "false" /\ file' = file)
       /\ (op' = "setup" /\ pc' # "idle") => file' = file
       /\ (op' = "setup" /\ outcome' = "false") => file' = file]_vars

C8_Witness ==
    /\ op = "setup"
    /\ pc = "idle"
    /\ outcome = "false"
    /\ Len(trace) > 0
    /\ Last(trace) = Event("exchange_resp", "missing_field")
    /\ file.status = "ok"
    /\ file.rec.access_token = "a0"

\* ------------------------------------------------------------------ C9

\* C9: after a successful exchange at time now the token file holds the
\* answer's access_token and refresh_token, access_expires_at = now +
\* expires_in, expires_at = now + refresh_expires_in, the wallet name and
\* the API URL; without refresh_expires_in the two timestamps are equal.
C9_Persist ==
    [][(pc = "exchange" /\ tresp'.kind = "ok") =>
           /\ pc' = "idle"
           /\ outcome' = "true"
           /\ file'.status = "ok"
           /\ file'.rec.access_token = tresp'.access_token
           /\ file'.rec.refresh_token = tresp'.refresh_token
           /\ file'.rec.access_expires_at = isoformat(now + tresp'.expires_in)
           /\ tresp'.has_rei =>
                  file'.rec.expires_at = isoformat(now + tresp'.refresh_expires_in)
           /\ ~tresp'.has_rei =>
                  file'.rec.expires_at = file'.rec.access_expires_at
           /\ file'.rec.wallet_name = wallet_name
           /\ file'.rec.api_url = ApiUrl]_vars

C9_Witness ==
    /\ op = "setup"
    /\ pc = "idle"
    /\ outcome = "true"
    /\ tresp.kind = "ok"
    /\ ~tresp.has_rei
    /\ file.rec.access_token = tresp.access_token
    /\ file.rec.expires_at = file.rec.access_expires_at
    /\ file.rec.access_expires_at = isoformat(now + tresp.expires_in)

\* ------------------------------------------------------------------ C10

Clamp(x, lo, hi) == IF x < lo THEN lo ELSE IF x > hi THEN hi ELSE x

ProactiveRefreshReturns ==
    \/ pc = "idle" /\ op' = "execute" /\ EntersRefresh /\ rret' = "false"
    \/ pc = "refresh" /\ caller = "proactive" /\ pc' # "refresh"

\* get_valid_access_token has nothing to return from the token file f.
TokenAbsent(f) ==
    \/ wallet_name = ""
    \/ f.status # "ok"
    \/ f.rec.access_token = NoToken

\* C11: when the proactive refresh_tokens_if_needed call has returned and no
\* access token can be loaded, _make_request raises the re-authenticate
\* error and has issued no request.
C11_TokenAbsent ==
    [][(ProactiveRefreshReturns /\ TokenAbsent(file')) =>
           /\ pc' = "idle"
           /\ outcome' = "AuthExpired"
           /\ attempt' = 0
           /\ Count(trace', "request") = 0]_vars

C11_Witness ==
    /\ op = "execute"
    /\ pc = "idle"
    /\ outcome = "AuthExpired"
    /\ Count(trace, "request") = 0
    /\ wallet_name # ""
    /\ file.status = "ok"
    /\ file.rec.refresh_token # NoToken

C11_WitnessNoWallet ==
    /\ op = "execute"
    /\ pc = "idle"
    /\ outcome = "AuthExpired"
    /\ wallet_name = ""
    /\ file.status = "ok"
    /\ file.rec.access_token # NoToken

\* ------------------------------------------------------------------ C12

\* A step in which the first request of a _make_request is answered s.
FirstAnswer(s) ==
    /\ pc = "request"
    /\ attempt = 1
    /\ Len(trace') > Len(trace)
    /\ trace'[Len(trace) + 1] = Event("response", s)

\* C12: when the first request fails with a status other than 401 or with
\* a transport error, _make_request raises that error at once: no
\* refresh_tokens_if_needed call, no second request, token file unchanged.
C12_OtherErrors ==
    [][\A s \in ErrorStatuses \ {"401"} :
           FirstAnswer(s) =>
               /\ pc' = "idle"
               /\ outcome' = s
               /\ trace' = Append(trace, Event("response", s))
               /\ ~EntersRefresh
               /\ rposts' = rposts
               /\ attempt' = 1
               /\ file' = file]_vars

C12_Witness ==
    /\ op = "execute"
    /\ pc = "idle"
    /\ outcome = "500"
    /\ attempt = 1
    /\ Last(trace) = Event("response", "500")

C12_WitnessTransport ==
    /\ op = "execute"
    /\ pc = "idle"
    /\ outcome = "transport"
    /\ attempt = 1
    /\ Last(trace) = Event("response", "transport")

\* ------------------------------------------------------------------ C18

\* The refresh_tokens_if_needed calls that returned after an answer had
\* come in.
RefreshesAfterAnswer(tr) ==
    Cardinality({j \in 1..Len(tr) :
                    /\ tr[j].e = "refresh_ret"
                    /\ \E i \in 1..(j - 1) : tr[i].e = "response"})

\* C18: a _make_request issues at most two requests and makes at most one
\* refresh attempt after an answer; once the second request is answered
\* nothing follows the answer and _make_request ends with it, a second 401
\* included.
C18_SingleRetry ==
    op = "execute" =>
        /\ attempt <= 2
        /\ Count(trace, "request") <= 2
        /\ RefreshesAfterAnswer(trace) <= 1
        /\ Count(trace, "refresh_post") <= 2
        /\ Count(trace, "response") = 2 =>
               /\ pc = "idle"
               /\ Last(trace).e = "response"
               /\ outcome = Last(trace).v

C18_Witness ==
    /\ op = "execute"
    /\ pc = "idle"
    /\ outcome = "401"
    /\ Count(trace, "request") = 2
    /\ RefreshesAfterAnswer(trace) = 1
    /\ Last(trace) = Event("response", "401")

\* ------------------------------------------------------------------ C20

\* A step in which a request leaves.
RequestLeaves ==
    /\ pc' = "request"
    /\ Len(trace') > Len(trace)
    /\ Last(trace').e = "request"

\* C20: every request carries the access token the token file holds when
\* the request leaves; the request retried after a 401 and a successful
\* refresh carries the access token of the refresh answer.
C20_StoredToken ==
    [][RequestLeaves =>
           /\ file'.status = "ok"
           /\ Last(trace').v = file'.rec.access_token
           /\ (pc = "refresh" /\ caller = "on401") =>
                  /\ tresp'.kind = "ok"
                  /\ Last(trace').v = tresp'.access_token]_vars

C20_Witness ==
    /\ op = "execute"
    /\ pc = "request"
    /\ attempt = 2
    /\ tresp.kind = "ok"
    /\ Last(trace) = Event("request", tresp.access_token)
    /\ trace[1] = Event("refresh_ret", "false")
    /\ trace[2].e = "request"
    /\ trace[2].v # tresp.access_token

\* ------------------------------------------------------------------ C19

\* C19: with a refresh_token and both expiry timestamps on record,
\* refresh_tokens_if_needed posts to /auth/refresh exactly when
\* access_expires_at - 30 <= now < expires_at; in particular it posts at
\* now = access_expires_at - 30, not at now = access_expires_at - 31, and
\* not at now = expires_at.
C19_DecisionBoundaries ==
    [][LET tokens == load_tokens(file)
           access_expires == fromisoformat(tokens.access_expires_at)
           expires_at == fromisoformat(tokens.expires_at)
           posts == pc' = "refresh" /\ rposts' = 1
       IN  (/\ EntersRefresh
            /\ tokens.refresh_token # NoToken
            /\ Parses(tokens.access_expires_at)
            /\ Parses(tokens.expires_at)) =>
               /\ posts <=> (access_expires - 30 <= now /\ now < expires_at)
               /\ ~posts => (rret' = "false" /\ rposts' = 0 /\ pc' # "refresh")
               /\ (now = access_expires - 30 /\ now < expires_at) => posts
               /\ now = access_expires - 31 => ~posts
               /\ now = expires_at => ~posts]_vars

\* A POST made at now = access_expires_at - 30, one second before the
\* refresh token expires.
C19_Witness ==
    /\ op = "refresh"
    /\ pc = "refresh"
    /\ rposts = 1
    /\ now = fromisoformat(loaded.access_expires_at) - 30
    /\ now = fromisoformat(loaded.expires_at) - 1

\* No POST one second before the window opens.
C19_WitnessEarly ==
    /\ op = "refresh"
    /\ pc = "idle"
    /\ rret = "false"
    /\ file.rec.wallet_name = "w0"
    /\ now = fromisoformat(file.rec.access_expires_at) - 31
    /\ now < fromisoformat(file.rec.expires_at)

\* No POST at now = expires_at with the access token due.
C19_WitnessRefreshExpired ==
    /\ op = "refresh"
    /\ pc = "idle"
    /\ rret = "false"
    /\ file.rec.wallet_name = "w0"
    /\ now >= fromisoformat(file.rec.access_expires_at) - 30
    /\ now = fromisoformat(file.rec.expires_at)

\* ------------------------------------------------------------------ C17

\* C17: load_tokens returns the empty record when the token file does not
\* exist or does not parse, and otherwise the record of the last save.
C17_Load ==
    st_ret = "returned" =>
        /\ file.status \in {"missing", "corrupt"} => st_loaded = EmptyRecord
        /\ file.status = "ok" => st_loaded = st_saved

C17_Witness ==
    /\ st_ret = "returned"
    /\ file.status = "ok"
    /\ st_loaded = st_saved
    /\ st_saved.access_token = "a0"
    /\ st_saved.expires_at = BadTs

C17_WitnessCorrupt ==
    /\ st_ret = "returned"
    /\ file.status = "corrupt"
    /\ st_saved.access_token = "a0"
    /\ st_loaded = EmptyRecord

\* ------------------------------------------------------------------ C13

\* The page the caller asked the paginated method to start at.
StartPage(call) == IF call.how = "default" THEN 1 ELSE call.page

\* The indices of the events e in the log, and the last one before index i.
Indices(log, e) == {i \in 1..Len(log) : log[i].e = e}

LastBefore(log, e, i) ==
    CHOOSE j \in Indices(log, e) :
        j < i /\ \A h \in Indices(log, e) : h < i => h <= j

\* Every call of the wrapped method so far was made with the page that
\* all-pages mode prescribes: the start page, then current_page + 1 of the
\* page before.
CallsFollowPages ==
    \A i \in Indices(plog, "call") :
        plog[i].page =
            IF \A j \in Indices(plog, "ret") : j > i
            THEN StartPage(p_call)
            ELSE plog[LastBefore(plog, "ret", i)].page + 1

\* The list returned holds the page of every call, in call order, the last
\* one being the first with has_next false.
ListIsEveryPage ==
    /\ Len(p_list) = Cardinality(Indices(plog, "call"))
    /\ Len(p_list) = Cardinality(Indices(plog, "ret"))
    /\ \A k \in 1..Len(p_list) :
           /\ p_list[k].data = k
           /\ p_list[k].has_next <=> k < Len(p_list)
           /\ \E i \in Indices(plog, "ret") :
                  /\ Cardinality({j \in Indices(plog, "ret") : j <= i}) = k
                  /\ plog[i].page = p_list[k].current_page
                  /\ plog[i].has_next = p_list[k].has_next

\* C13: with get_all_pages the wrapped method is called with the start page
\* and then with current_page + 1 of each page returned; the calls stop at
\* the first page with has_next false (or at a failing call), and the list
\* returned holds every page, one per call, in call order.
C13_AllPages ==
    p_call.get_all_pages =>
        /\ CallsFollowPages
        /\ \A i \in Indices(plog, "ret") :
               ~plog[i].has_next => (i = Len(plog) /\ p_ret = "list")
        /\ p_ret = "list" => ListIsEveryPage
        /\ p_ret = "raise" => (Last(plog).e = "raise" /\ p_error \in PageErrors)

\* The same statement for calls that leave `page` to its default or pass it
\* by keyword.
C13_PageByKeyword ==
    p_call.how # "positional" => C13_AllPages

\* Three pages fetched with page = 1, 2, 3.
C13_ThreePages ==
    /\ p_call = PageCall(TRUE, "default", 1)
    /\ p_ret = "list"
    /\ Len(p_list) = 3
    /\ \A k \in 1..3 : p_list[k].current_page = k
    /\ plog[1].page = 1 /\ plog[4].page = 2 /\ plog[7].page = 3

\* The second call of a run started with a positional `page`.
C13_PositionalPage ==
    /\ p_call.get_all_pages
    /\ p_call.how = "positional"
    /\ p_ret = "raise"
    /\ p_error = "TypeError"
    /\ Len(page_results) = 0
    /\ Cardinality(Indices(plog, "ret")) = 1

\* ------------------------------------------------------------------ C14

\* C14: with get_all_pages every pause follows a page with has_next true and
\* is followed by the next call, every call but the first follows a pause,
\* so n calls come with n - 1 pauses of PAGE_PAUSE each and no pause follows
\* the last page.
C14_Pacing ==
    (p_call.get_all_pages /\ Len(plog) > 0) =>
        /\ \A i \in Indices(plog, "pause") :
               /\ i > 1 /\ i < Len(plog)
               /\ plog[i - 1].e = "ret" /\ plog[i - 1].has_next
               /\ plog[i + 1].e = "call"
        /\ \A i \in Indices(plog, "call") : i > 1 => plog[i - 1].e = "pause"
        /\ Cardinality(Indices(plog, "pause")) =
               Cardinality(Indices(plog, "call")) - 1
        /\ slept_ms = PAGE_PAUSE_MS * (Cardinality(Indices(plog, "call")) - 1)
        /\ Last(plog).e # "pause"

C14_Witness ==
    /\ p_call.get_all_pages
    /\ p_ret = "list"
    /\ Len(p_list) = 3
    /\ Cardinality(Indices(plog, "pause")) = 2
    /\ slept_ms = 2 * PAGE_PAUSE_MS

\* ------------------------------------------------------------------ C15

\* C15: without get_all_pages the wrapped method is called once, with the
\* caller's page, and the wrapper ends with that call's page as it is, or
\* with the error the call raised; no list is built and no pause is taken,
\* whatever has_next says.
C15_SinglePage ==
    (~p_call.get_all_pages /\ ppc # "idle") =>
        /\ plog[1] = PageEvent("call", StartPage(p_call), FALSE)
        /\ Cardinality(Indices(plog, "call")) = 1
        /\ Indices(plog, "pause") = {}
        /\ slept_ms = 0
        /\ p_list = <<>>
        /\ ppc = "done" =>
               \/ /\ p_ret = "output"
                  /\ plog[2] = PageEvent("ret", p_output.current_page,
                                          p_output.has_next)
                  /\ p_output.data = 1
                  /\ Len(plog) = 2
               \/ /\ p_ret = "raise"
                  /\ plog[2].e = "raise"
                  /\ p_error \in PageErrors
                  /\ Len(plog) = 2

C15_Witness ==
    /\ ~p_call.get_all_pages
    /\ p_call.how = "positional"
    /\ p_ret = "output"
    /\ p_output.has_next
    /\ p_output.current_page = 1
    /\ plog[1].page = 2

\* ------------------------------------------------------------------ C16

\* The call has an argument outside the ranges the claim lists.
OutOfRange(a) ==
    \/ a.fn \in RecentMethods /\ a.limit \notin 1..10000
    \/ a.fn \in ByHotkey /\ a.hotkey_len # 48
    \/ a.fn \in HistoricalMethods /\ a.start_date >= a.end_date
    \/ a.fn \in HistoricalMethods /\ a.page < 1
    \/ a.fn \in HistoricalMethods /\ a.page_size \notin 100..10000

\* Every argument of the call is inside its range.
InRange(a) ==
    /\ ~OutOfRange(a)
    /\ a.fn \in ByUid => a.miner_uid \in 0..255

\* C16: a call with an argument out of range raises ValueError on the spot:
\* refresh_tokens_if_needed is not called, nothing goes to the network,
\* nothing is retried and the token file stays as it was; a call with every
\* argument in range, the ends of the ranges included, goes on into
\* _make_request.
C16_ValidationFirst ==
    [][(pc = "idle" /\ args.fn # "none") =>
           /\ OutOfRange(args) =>
                  /\ pc' = "idle"
                  /\ outcome' = "ValueError"
                  /\ ~EntersRefresh
                  /\ rposts' = rposts
                  /\ trace' = <<>>
                  /\ attempt' = 0
                  /\ file' = file
           /\ InRange(args) =>
                  /\ op' = "execute"
                  /\ EntersRefresh
                  /\ outcome' # "ValueError"]_vars

\* limit = 10000 has got as far as a request.
C16_Witness ==
    /\ args.fn = "recent"
    /\ args.limit = 10000
    /\ op = "execute"
    /\ pc = "request"
    /\ attempt = 1

C16_WitnessLimitOne ==
    /\ args.fn = "recent_by_hotkey"
    /\ args.limit = 1
    /\ op = "execute"
    /\ pc = "request"

C16_WitnessPageSize ==
    /\ args.fn = "historical"
    /\ args.page_size = 100
    /\ args.page = 1
    /\ op = "execute"
    /\ pc = "refresh"
    /\ caller = "proactive"

C16_WitnessRejected ==
    /\ args.fn = "historical"
    /\ args.start_date = args.end_date
    /\ args.page_size = 10000
    /\ args.page = 1
    /\ op = "rejected"
    /\ outcome = "ValueError"
    /\ rtick = FALSE

\* ------------------------------------------------------------------ C21

\* The events of tr before its first request (all of tr when it has none).
BeforeFirstRequest(tr) ==
    {i \in 1..Len(tr) : \A j \in 1..i : tr[j].e # "request"}

\* A step that enters _make_request.
EntersExecute == pc = "idle" /\ op' = "execute" /\ now' = now

\* C21: every _make_request starts with one call of
\* refresh_tokens_if_needed, made before the access token is read and the
\* first request leaves, whatever the token file holds; that call posts to
\* /auth/refresh only when the record calls for a refresh.
C21_ProactiveFirst ==
    [][/\ EntersExecute =>
              /\ EntersRefresh
              /\ rposts' = 1 => DueCase(load_tokens(file), now)
              /\ pc' = "refresh" <=> rposts' = 1
              /\ trace'[1].e \in {"refresh_ret", "refresh_post"}
       /\ (op' = "execute" /\ Count(trace', "request") > 0) =>
              /\ trace'[1].e \in {"refresh_ret", "refresh_post"}
              /\ Cardinality({i \in BeforeFirstRequest(trace') :
                                 trace'[i].e = "refresh_ret"}) = 1
              /\ Cardinality({i \in BeforeFirstRequest(trace') :
                                 trace'[i].e = "refresh_post"}) <= 1]_vars

C21_Witness ==
    /\ op = "execute"
    /\ pc = "request"
    /\ attempt = 1
    /\ Len(trace) = 4
    /\ trace[1].e = "refresh_post"
    /\ trace[3] = Event("refresh_ret", "true")
    /\ trace[4].e = "request"

C21_WitnessNotDue ==
    /\ op = "execute"
    /\ pc = "request"
    /\ rposts = 0
    /\ trace[1] = Event("refresh_ret", "false")
    /\ file.rec.access_expires_at = BadTs
    /\ file.rec.refresh_token = NoToken

\* ------------------------------------------------------------------ C22

\* The steps of setup_authentication past the check of the existing tokens,
\* in the order of the code.
SetupSteps ==
    <<"challenge_get", "challenge_resp", "sign", "exchange_post",
      "exchange_resp", "save">>

\* C22: a setup_authentication that goes past the check of the existing
\* tokens requests the challenge, signs, posts the exchange and writes the
\* token file in that order, each once at most; each step needs the one
\* before it to have succeeded, a failed step ends the call with False, and
\* the token file is written by the last step only.
C22_SetupOrder ==
    [][(op' = "setup" /\ trace' # <<>>
            /\ trace' # <<Event("valid_tokens_found", "")>>) =>
           LET tr == trace'
               n == Len(tr)
           IN  /\ n <= Len(SetupSteps)
               /\ \A i \in 1..n : tr[i].e = SetupSteps[i]
               /\ n >= 3 => tr[2].v = "ok"
               /\ n >= 4 => tr[3].v = "ok"
               /\ n = 3 => tr[3].v = "fail"
               /\ n = 6 => tr[5].v = "ok"
               /\ pc' = "idle" <=>
                      \/ n = 2 /\ tr[2].v # "ok"
                      \/ n = 3
                      \/ n = 5 /\ tr[5].v # "ok"
                      \/ n = 6
               /\ pc' = "idle" => (outcome' = "true" <=> n = 6)
               /\ pc' = "idle" => outcome' \in {"true", "false"}
               /\ file' # file => (n = 6 /\ Len(trace) = 4)]_vars

C22_Witness ==
    /\ op = "setup"
    /\ pc = "idle"
    /\ outcome = "true"
    /\ Len(trace) = 6
    /\ \A i \in 1..6 : trace[i].e = SetupSteps[i]
    /\ file.rec.access_token = trace[6].v

C22_WitnessSignFails ==
    /\ op = "setup"
    /\ pc = "idle"
    /\ outcome = "false"
    /\ Len(trace) = 3
    /\ trace[3] = Event("sign", "fail")

\* ------------------------------------------------------------------ C23

\* C23: a successful refresh leaves wallet_name, api_url and every other
\* key of the stored record as they were; only access_token, refresh_token,
\* access_expires_at and expires_at are rewritten.
C23_MergeFrame ==
    [][RefreshAnswered({"ok"}) =>
           /\ file.status = "ok"
           /\ file'.status = "ok"
           /\ file'.rec.wallet_name = file.rec.wallet_name
           /\ file'.rec.api_url = file.rec.api_url
           /\ file'.rec.extra = file.rec.extra
           /\ file'.rec =
                  [file.rec EXCEPT
                      !.access_token = file'.rec.access_token,
                      !.refresh_token = file'.rec.refresh_token,
                      !.access_expires_at = file'.rec.access_expires_at,
                      !.expires_at = file'.rec.expires_at]]_vars

C23_Witness ==
    /\ op = "execute"
    /\ rret = "true"
    /\ tresp.kind = "ok"
    /\ file.rec.access_token = tresp.access_token
    /\ file.rec.wallet_name = "w0"
    /\ file.rec.api_url = "u0"
    /\ file.rec.extra = "x"

\* ------------------------------------------------------------------ C24

\* A stored timestamp that is there but does not parse.
Malformed(ts) == ts.k # "none" /\ ~Parses(ts)

\* setup_authentication's check of the existing tokens takes a malformed
\* expires_at for an expired one.
C24_SetupCheck ==
    [][(EntersSetup /\ wallet_name # "" /\ file.status = "ok"
            /\ Malformed(file.rec.expires_at)) =>
           (pc' = "challenge" /\ outcome' = "none")]_vars

\* C24: every operation that reads a malformed expiry timestamp takes it for
\* an expired one and none raises because of it: setup_authentication goes
\* on to the challenge; refresh_tokens_if_needed returns False without a
\* POST on a malformed expires_at, and takes the access token for expired
\* (refresh due) on a malformed access_expires_at.
C24_MalformedTimestamps ==
    [][LET tokens == load_tokens(file)
       IN  /\ (EntersSetup /\ wallet_name # "" /\ file.status = "ok"
                   /\ Malformed(file.rec.expires_at)) =>
                  pc' = "challenge"
           /\ (EntersRefresh /\ tokens.refresh_token # NoToken
                   /\ Malformed(tokens.expires_at)) =>
                  (rret' = "false" /\ rposts' = 0)
           /\ (EntersRefresh /\ tokens.refresh_token # NoToken
                   /\ (\/ tokens.expires_at.k = "none"
                       \/ /\ Parses(tokens.expires_at)
                          /\ now < fromisoformat(tokens.expires_at))
                   /\ Malformed(tokens.access_expires_at)) =>
                  (pc' = "refresh" /\ rposts' = 1)
           /\ rret' # "raise"
           /\ outcome' # "ParseError"]_vars

\* A _make_request ended by the ValueError of refresh_tokens_if_needed.
C24_ExecuteRaises ==
    /\ op = "execute"
    /\ pc = "idle"
    /\ outcome = "ParseError"
    /\ Malformed(file.rec.expires_at)
    /\ file.rec.access_token # NoToken
    /\ Count(trace, "request") = 0

\* ------------------------------------------------------------------ C27

\* C27: when a setup_authentication gets through the exchange, the token
\* file afterwards is the record built from the answer, the clock, the
\* wallet name and the API URL and nothing else, whatever it held before;
\* and no step ever turns an existing token file into a missing or
\* unreadable one.
C27_Overwrite ==
    [][/\ (pc = "exchange" /\ tresp'.kind = "ok") =>
              file' =
                  [status |-> "ok",
                   rec |->
                       [access_token |-> tresp'.access_token,
                        refresh_token |-> tresp'.refresh_token,
                        access_expires_at |-> isoformat(now + tresp'.expires_in),
                        expires_at |->
                            isoformat(now + (IF tresp'.has_rei
                                             THEN tresp'.refresh_expires_in
                                             ELSE tresp'.expires_in)),
                        wallet_name |-> wallet_name,
                        api_url |-> ApiUrl,
                        extra |-> ""]]
       /\ file.status = "ok" => file'.status = "ok"
       /\ file'.status # "ok" => file' = file]_vars

\* A record written over the one an earlier run had left, after that one's
\* expires_at had passed.
C27_Witness ==
    /\ op = "setup"
    /\ pc = "idle"
    /\ outcome = "true"
    /\ Len(trace) = 6
    /\ now = 60
    /\ tresp.has_rei
    /\ file.rec.extra = ""
    /\ file.rec.wallet_name = "w1"
    /\ file.rec.expires_at = isoformat(now + tresp.refresh_expires_in)

\* ------------------------------------------------------------------ C28

C28_WitnessValid ==
    /\ q_res = "valid"
    /\ fromisoformat(q_t) - now = 6

C28_WitnessTenPercent ==
    /\ q_res = "valid"
    /\ fromisoformat(q_t) - now = 200
    /\ buffer_tenths(200) = 200

\* ------------------------------------------------------------------ C30

\* The access token of record rec is past its expiry at time n.
AccessExpired(rec, n) ==
    Parses(rec.access_expires_at) /\ n >= fromisoformat(rec.access_expires_at)

\* C30: when the proactive refresh_tokens_if_needed call returns False and
\* the token file holds an access token, the request leaves with that
\* token, also when its access_expires_at has passed; a _make_request that
\* issued a request raises the re-authenticate error only after a 401.
C30_ExpiredTokenSent ==
    [][/\ (ProactiveRefreshReturns /\ rret' = "false" /\ ~TokenAbsent(file')) =>
              /\ file' = file
              /\ pc' = "request"
              /\ attempt' = 1
              /\ Last(trace') = Event("request", file.rec.access_token)
       /\ (op' = "execute" /\ outcome' = "AuthExpired"
               /\ Count(trace', "request") > 0) =>
              /\ Count(trace', "request") = 1
              /\ \E i \in 1..Len(trace') :
                     /\ trace'[i] = Event("response", "401")
                     /\ trace'[i - 1].e = "request"]_vars

\* An expired token sent after a failed refresh call, then a 401.
C30_Witness ==
    /\ op = "execute"
    /\ pc = "idle"
    /\ outcome = "AuthExpired"
    /\ AccessExpired(file.rec, now)
    /\ Len(trace) >= 5
    /\ trace[1].e = "refresh_post"
    /\ trace[3] = Event("refresh_ret", "false")
    /\ trace[4] = Event("request", file.rec.access_token)
    /\ trace[5] = Event("response", "401")

\* An expired token on its way with no refresh token on record, and with an
\* expired one.
C30_WitnessNoRefreshToken ==
    /\ op = "execute"
    /\ pc = "request"
    /\ AccessExpired(file.rec, now)
    /\ file.rec.refresh_token = NoToken
    /\ trace = <<Event("refresh_ret", "false"),
                 Event("request", file.rec.access_token)>>

C30_WitnessRefreshExpired ==
    /\ op = "execute"
    /\ pc = "request"
    /\ AccessExpired(file.rec, now)
    /\ file.rec.refresh_token # NoToken
    /\ Parses(file.rec.expires_at)
    /\ now >= fromisoformat(file.rec.expires_at)
    /\ trace = <<Event("refresh_ret", "false"),
                 Event("request", file.rec.access_token)>>

\* ------------------------------------------------------------------ C29

\* The proactive refresh of the running _make_request succeeded with an
\* access token lifetime above 30 s, and its first request is now answered
\* with a 401.
UnauthorizedAfterRefresh ==
    /\ FirstAnswer("401")
    /\ Len(trace) = 4
    /\ trace[1].e = "refresh_post"
    /\ trace[3] = Event("refresh_ret", "true")
    /\ tresp.kind = "ok"
    /\ tresp.expires_in > 30

\* The second refresh_tokens_if_needed call returns False without a POST and
\* _make_request raises the re-authenticate error without a retry.
NotDueThenAuthExpired ==
    /\ EntersRefresh
    /\ rret' = "false"
    /\ rposts' = 0
    /\ pc' = "idle"
    /\ outcome' = "AuthExpired"
    /\ Count(trace', "request") = 1
    /\ file' = file

\* C29 as stated: a 401 after a successful proactive refresh with a
\* lifetime above 30 s always ends in the re-authenticate error, the second
\* refresh_tokens_if_needed call making no POST.
C29_AsStated ==
    [][UnauthorizedAfterRefresh => NotDueThenAuthExpired]_vars

\* C29 amended: the same when the 401 comes in while the new access token
\* is still more than 30 s from its expiry, that is less than lifetime - 30
\* seconds after the refresh.
C29_WithinLifetime ==
    [][(/\ UnauthorizedAfterRefresh
        /\ now < fromisoformat(file.rec.access_expires_at) - 30) =>
           NotDueThenAuthExpired]_vars

C29_Witness ==
    /\ op = "execute"
    /\ pc = "idle"
    /\ outcome = "AuthExpired"
    /\ Len(trace) = 6
    /\ trace[1].e = "refresh_post"
    /\ trace[3] = Event("refresh_ret", "true")
    /\ trace[5] = Event("response", "401")
    /\ trace[6] = Event("refresh_ret", "false")
    /\ rposts = 0
    /\ now < fromisoformat(file.rec.access_expires_at) - 30

\* The 401 comes in later: the second call posts to /auth/refresh again.
C29_WitnessLate ==
    /\ op = "execute"
    /\ pc = "refresh"
    /\ caller = "on401"
    /\ Len(trace) = 6
    /\ trace[3] = Event("refresh_ret", "true")
    /\ trace[5] = Event("response", "401")
    /\ trace[6].e = "refresh_post"
    /\ fromisoformat(loaded.access_expires_at) - now = 30

\* ------------------------------------------------------------------ C26

\* The last call of the wrapped method failed: it raised, or it could not
\* be made.
LastCallFailed ==
    /\ Len(plog) > 0
    /\ \/ Last(plog).e = "raise"
       \/ Last(plog) = PageEvent("call", 0, FALSE)

\* C26: a call with get_all_pages has ended exactly when a page came back
\* with has_next false (it then returns the list) or a call of the wrapped
\* method failed (it then raises); as long as every page says has_next true
\* and no call fails, the wrapper is calling or pausing, however many pages
\* it has fetched.
C26_Termination ==
    p_call.get_all_pages =>
        LET ended == \E i \in Indices(plog, "ret") : ~plog[i].has_next
        IN  /\ p_ret = "list" <=> ended
            /\ p_ret = "raise" <=> LastCallFailed
            /\ ppc = "done" <=> (ended \/ LastCallFailed)
            /\ (~ended /\ ~LastCallFailed /\ Len(plog) > 0) =>
                   /\ ppc \in {"call", "pause"}
                   /\ ppc = "call" <=> Last(plog).e = "call"
                   /\ ppc = "pause" <=> Last(plog).e = "ret"

\* As many calls as the model goes to, every page so far with has_next true,
\* and the wrapper in its next call.
C26_Witness ==
    /\ p_call.get_all_pages
    /\ ppc = "call"
    /\ Cardinality(Indices(plog, "call")) = MaxCalls
    /\ Len(page_results) = MaxCalls - 1
    /\ \A k \in 1..Len(page_results) : page_results[k].has_next
    /\ slept_ms = PAGE_PAUSE_MS * (MaxCalls - 1)

\* ------------------------------------------------------------------ C25

\* C25: two processes on one token file are not kept apart: a process whose
\* load finds the access token due can start its refresh while the other
\* is between its load and its save, so both post the refresh_token they
\* loaded; and the file holds the record of whoever saved last, built from
\* that process's own load and answer.
C25_LastWriterWins ==
    /\ \A p \in Procs :
           (r_pc[p] = "idle"
               /\ refresh_decision(load_tokens(file), now) = "call") =>
               ENABLED RaceStart(p)
    /\ \A p \in Procs :
           r_pc[p] = "refresh" => r_posted[p] = r_loaded[p].refresh_token
    /\ r_last # 0 => file = OkFile(r_saved[r_last])
    /\ r_last = 0 => file = OkFile(RaceRecord)

\* Both processes posted the refresh_token "r0" at once, both were answered,
\* process 2 saved last and the access token process 1 obtained is gone.
C25_Witness ==
    /\ r_raced
    /\ r_pc = [p \in Procs |-> "idle"]
    /\ r_posted = [p \in Procs |-> "r0"]
    /\ r_last = 2
    /\ r_saved[1] # EmptyRecord
    /\ r_saved[1].access_token # r_saved[2].access_token
    /\ file.rec = r_saved[2]
    /\ file.rec.access_token # r_saved[1].access_token

\* ------------------------------------------------------------------ C31

\* C31: with get_all_pages, once a call of the wrapped method has failed the
\* wrapper has ended by raising that error, the failed call is the last
\* thing it did (no later call, pause or page), and neither a list nor a
\* page is returned: the pages fetched before the failure are dropped with
\* the wrapper's locals.
C31_FailurePropagates ==
    (p_call.get_all_pages /\ Len(plog) > 0) =>
        /\ \A i \in Indices(plog, "raise") : i = Len(plog)
        /\ Last(plog).e = "raise" =>
               /\ ppc = "done"
               /\ p_ret = "raise"
               /\ p_error \in PageErrors
               /\ p_list = <<>>
               /\ p_output = NoOutput
               /\ page_results = <<>>
        /\ p_ret = "list" => Indices(plog, "raise") = {}

\* Two pages came back, the third call failed with AuthExpired, and the
\* caller has the exception and no page.
C31_Witness ==
    /\ p_call.get_all_pages
    /\ Cardinality(Indices(plog, "ret")) = 2
    /\ Cardinality(Indices(plog, "call")) = 3
    /\ Last(plog).e = "raise"
    /\ p_ret = "raise"
    /\ p_error = "AuthExpired"
    /\ p_list = <<>>

\* The first call already fails, here on validation.
C31_WitnessFirstCall ==
    /\ p_call.get_all_pages
    /\ Len(plog) = 2
    /\ Last(plog).e = "raise"
    /\ p_error = "ValueError"

\* ------------------------------------------------------------------ C32

\* What C32 says of a step taken with no wallet name configured, an
\* execute being allowed to end with one of `ends`: setup_authentication
\* returns False at once, with no network call and the token file as it
\* was; a _make_request never issues its request and ends with one of
\* `ends`.
NoWalletStep(ends) ==
    wallet_name = "" =>
        /\ EntersSetup =>
               /\ pc' = "idle"
               /\ outcome' = "false"
               /\ trace' = <<>>
               /\ file' = file
        /\ op' = "execute" =>
               /\ pc' # "request"
               /\ Count(trace', "request") = 0
               /\ pc' = "idle" => outcome' \in ends

\* C32: with no wallet name configured, setup_authentication reports
\* failure without any network call and without writing the token file,
\* and every execute fails with AuthExpired without a request to the
\* endpoint, whatever the token file holds.
C32_NoWallet == [][NoWalletStep({"AuthExpired"})]_vars

\* The same with the parse error of refresh_tokens_if_needed let through.
C32_NoWalletOrRaise == [][NoWalletStep({"AuthExpired", "ParseError"})]_vars

\* No wallet, a stored access token that is not expired, and the execute
\* has ended with AuthExpired and no request.
C32_ExecuteRefused ==
    /\ wallet_name = ""
    /\ op = "execute"
    /\ pc = "idle"
    /\ outcome = "AuthExpired"
    /\ Count(trace, "request") = 0
    /\ file.status = "ok"
    /\ file.rec.access_token # NoToken
    /\ Parses(file.rec.access_expires_at)
    /\ now < fromisoformat(file.rec.access_expires_at) - 30

\* No wallet and setup_authentication has returned False.
C32_SetupRefused ==
    /\ wallet_name = ""
    /\ op = "setup"
    /\ pc = "idle"
    /\ outcome = "false"
    /\ trace = <<>>

\* No wallet, a malformed expires_at in the token file, and the execute has
\* ended with the parse error instead of AuthExpired.
C32_ExecuteRaises ==
    /\ wallet_name = ""
    /\ op = "execute"
    /\ pc = "idle"
    /\ outcome = "ParseError"
    /\ Malformed(file.rec.expires_at)

====
